---------------------------- MODULE Spec2Model ----------------------------
(***************************************************************************)
(* Model of cartographer.py: glob-based file selection, per-file and       *)
(* per-folder content digests, the persisted checkpoint and the three      *)
(* commands init / changes / update.                                       *)
(*                                                                         *)
(* Paths, patterns and digests are strings, handled character by character *)
(* as the Python code does.  MD5 is idealised as an injective function:    *)
(* the digest of some bytes is the string "md5(" bytes ")".                *)
(***************************************************************************)
EXTENDS Integers, Sequences, FiniteSets, TLC

VARIABLES tree, checkpoint, now, out, log, budget

vars == <<tree, checkpoint, now, out, log, budget>>

-----------------------------------------------------------------------------
(* Program constants                                                       *)

VERSION == "1.0.0"
STATE_DIR == ".slim"
STATE_FILE == "cartography.json"
CODEMAP_FILE == "codemap.md"

-----------------------------------------------------------------------------
(* Strings                                                                 *)

CharAt(s, i) == SubSeq(s, i, i)

StartsWith(s, prefix) ==
    /\ Len(prefix) <= Len(s)
    /\ SubSeq(s, 1, Len(prefix)) = prefix

EndsWith(s, suffix) ==
    /\ Len(suffix) <= Len(s)
    /\ SubSeq(s, Len(s) - Len(suffix) + 1, Len(s)) = suffix

Contains(s, c) == \E i \in 1..Len(s) : CharAt(s, i) = c

\* Code points of the characters that occur in the modelled paths.
Ord(c) ==
    CASE c = "#" -> 35  [] c = "*" -> 42  [] c = "." -> 46  [] c = "/" -> 47
      [] c = "1" -> 49  [] c = "2" -> 50  [] c = "?" -> 63  [] c = "a" -> 97
      [] c = "b" -> 98  [] c = "c" -> 99  [] c = "d" -> 100 [] c = "e" -> 101
      [] c = "g" -> 103 [] c = "i" -> 105 [] c = "l" -> 108 [] c = "m" -> 109
      [] c = "n" -> 110 [] c = "o" -> 111 [] c = "p" -> 112 [] c = "r" -> 114
      [] c = "s" -> 115 [] c = "t" -> 116 [] c = "y" -> 121 [] c = "j" -> 106
      [] c = "h" -> 104 [] c = "x" -> 120 [] c = "v" -> 118 [] c = " " -> 32

\* Python's str ordering: lexicographic by code point, a proper prefix first.
RECURSIVE StrLessFrom(_, _, _)
StrLessFrom(s, t, i) ==
    IF i > Len(t) THEN FALSE
    ELSE IF i > Len(s) THEN TRUE
    ELSE IF CharAt(s, i) = CharAt(t, i) THEN StrLessFrom(s, t, i + 1)
         ELSE Ord(CharAt(s, i)) < Ord(CharAt(t, i))

\* The paths, folders and ignore files of the model.  What is computed
\* character by character from them (order, parts, prefixes, matching) is
\* evaluated once and kept in the ...Cache definitions; for any other string
\* the same operator is evaluated on demand.  (A cache that is a set is
\* written {x : x \in ...} so that it is enumerated when it is built.)
KnownPaths ==
    {"a.py", "d/a.py", "d/b.log", "d/e/c.py", ".git/x", ".gitignore",
     "codemap.md", "d/codemap.md", "d/e/codemap.md", ".git/codemap.md",
     ".slim/cartography.json", ".slim/codemap.md"}
KnownFolders == {".", "d", "d/e", ".git", ".slim"}
KnownIgnoreFiles == {"# logs\n\n*.log \n", "/d/e/\n"}

LessCache ==
    {x : x \in {st \in KnownPaths \X KnownPaths :
                   StrLessFrom(st[1], st[2], 1)}}

StrLess(s, t) ==
    IF s \in KnownPaths /\ t \in KnownPaths THEN <<s, t>> \in LessCache
    ELSE StrLessFrom(s, t, 1)

\* sorted(S) for a set of distinct strings.
RECURSIVE Sorted(_)
Sorted(S) ==
    IF S = {} THEN <<>>
    ELSE LET m == CHOOSE x \in S : \A y \in S \ {x} : StrLess(x, y)
         IN  <<m>> \o Sorted(S \ {m})

\* str.strip() (blanks; line ends are already split off by Lines).
RECURSIVE Strip(_)
Strip(s) ==
    IF Len(s) > 0 /\ CharAt(s, 1) = " " THEN Strip(SubSeq(s, 2, Len(s)))
    ELSE IF Len(s) > 0 /\ CharAt(s, Len(s)) = " "
         THEN Strip(SubSeq(s, 1, Len(s) - 1))
         ELSE s

\* str.split(sep) for a one-character separator.
RECURSIVE SplitFrom(_, _, _, _)
SplitFrom(s, sep, i, cur) ==
    IF i > Len(s) THEN <<cur>>
    ELSE IF CharAt(s, i) = sep THEN <<cur>> \o SplitFrom(s, sep, i + 1, "")
         ELSE SplitFrom(s, sep, i + 1, cur \o CharAt(s, i))

PartsCache == [p \in KnownPaths |-> SplitFrom(p, "/", 1, "")]

\* Path(p).parts of a relative POSIX path.
Parts(p) ==
    IF p \in KnownPaths THEN PartsCache[p] ELSE SplitFrom(p, "/", 1, "")

\* The order of pathlib paths: by their parts, each part compared as a str.
RECURSIVE PartsLess(_, _)
PartsLess(a, b) ==
    IF Len(b) = 0 THEN FALSE
    ELSE IF Len(a) = 0 THEN TRUE
    ELSE IF a[1] = b[1] THEN PartsLess(Tail(a), Tail(b))
         ELSE StrLess(a[1], b[1])

PathLessCache ==
    {x : x \in {pq \in KnownPaths \X KnownPaths :
                   PartsLess(Parts(pq[1]), Parts(pq[2]))}}

PathLess(p, q) ==
    IF p \in KnownPaths /\ q \in KnownPaths THEN <<p, q>> \in PathLessCache
    ELSE PartsLess(Parts(p), Parts(q))

\* sorted(S) for a set of distinct Path objects.
RECURSIVE SortedPaths(_)
SortedPaths(S) ==
    IF S = {} THEN <<>>
    ELSE LET m == CHOOSE x \in S : \A y \in S \ {x} : PathLess(x, y)
         IN  <<m>> \o SortedPaths(S \ {m})

\* The lines of a text file.
Lines(bytes) == SplitFrom(bytes, "\n", 1, "")

\* "/".join(parts)
RECURSIVE Join(_)
Join(parts) ==
    IF Len(parts) = 0 THEN ""
    ELSE IF Len(parts) = 1 THEN parts[1]
         ELSE parts[1] \o "/" \o Join(Tail(parts))

-----------------------------------------------------------------------------
(* PatternMatcher                                                          *)

\* Characters re.escape() prefixes with a backslash ("/" is not one).
SpecialChars ==
    {"(", ")", "[", "]", "{", "}", "?", "*", "+", "-", "|", "^", "$", "\\",
     ".", "&", "~", "#", " "}

re_escape(c) == IF c \in SpecialChars THEN "\\" \o c ELSE c

\* re.escape(pattern), one item per pattern character.
EscapePattern(pattern) ==
    [i \in 1..Len(pattern) |-> re_escape(CharAt(pattern, i))]

\* str.replace(old, new): leftmost non-overlapping occurrences of the item
\* sequence old become the single item new.
RECURSIVE Replace(_, _, _)
Replace(reg, old, new) ==
    IF Len(reg) < Len(old) THEN reg
    ELSE IF SubSeq(reg, 1, Len(old)) = old
         THEN <<new>> \o Replace(SubSeq(reg, Len(old) + 1, Len(reg)), old, new)
         ELSE <<reg[1]>> \o Replace(Tail(reg), old, new)

\* The regular expression PatternMatcher.__init__ builds for one pattern,
\* as a sequence of regex items.
CompilePattern(pattern) ==
    LET r0 == EscapePattern(pattern)
        r1 == Replace(r0, <<"\\*", "\\*", "/">>, "(?:.*/)?")
        r2 == Replace(r1, <<"\\*", "\\*">>, ".*")
        r3 == Replace(r2, <<"\\*">>, "[^/]*")
        r4 == Replace(r3, <<"\\?">>, ".")
        r5 == IF EndsWith(pattern, "/") THEN Append(r4, ".*") ELSE r4
        r6 == IF StartsWith(pattern, "/")
              THEN <<"^">> \o Tail(r5)
              ELSE <<"(?:^|.*/)">> \o r5
    IN  Append(r6, "$")

\* Does the item sequence reg, from item k on, match s starting at
\* position i?  (Backtracking semantics of the regex items used above.)
RECURSIVE MatchFrom(_, _, _, _)
MatchFrom(reg, k, s, i) ==
    IF k > Len(reg) THEN TRUE
    ELSE LET item == reg[k]
             n == Len(s)
         IN  CASE item = "^" -> i = 1 /\ MatchFrom(reg, k + 1, s, i)
               [] item = "$" -> i = n + 1 /\ MatchFrom(reg, k + 1, s, i)
               [] item = "(?:^|.*/)" ->
                    \/ i = 1 /\ MatchFrom(reg, k + 1, s, i)
                    \/ \E j \in i..n :
                          CharAt(s, j) = "/" /\ MatchFrom(reg, k + 1, s, j + 1)
               [] item = "(?:.*/)?" ->
                    \/ MatchFrom(reg, k + 1, s, i)
                    \/ \E j \in i..n :
                          CharAt(s, j) = "/" /\ MatchFrom(reg, k + 1, s, j + 1)
               [] item = ".*" ->
                    \E j \in i..(n + 1) : MatchFrom(reg, k + 1, s, j)
               [] item = "[^/]*" ->
                    \E j \in i..(n + 1) :
                       /\ ~Contains(SubSeq(s, i, j - 1), "/")
                       /\ MatchFrom(reg, k + 1, s, j)
               [] item = "." -> i <= n /\ MatchFrom(reg, k + 1, s, i + 1)
               [] OTHER ->
                    /\ i <= n
                    /\ re_escape(CharAt(s, i)) = item
                    /\ MatchFrom(reg, k + 1, s, i + 1)

\* regex.search(path) for one compiled pattern.
Search(reg, s) == \E i \in 1..(Len(s) + 1) : MatchFrom(reg, 1, s, i)

\* PatternMatcher(patterns): the compiled alternatives, or <<>> for the
\* regex None of an empty pattern list.
PatternMatcher(patterns) ==
    [n \in 1..Len(patterns) |-> CompilePattern(patterns[n])]

\* PatternMatcher(patterns).matches(path)
regex_matches(patterns, path) ==
    LET regex == PatternMatcher(patterns)
    IN  IF Len(regex) = 0 THEN FALSE
        ELSE \E n \in 1..Len(regex) : Search(regex[n], path)

\* The pattern lists of the model, for which the matcher is evaluated once
\* per known path and kept; any other pair is evaluated on demand.
KnownPatternLists ==
    {<<>>, <<"**/*">>, <<"*.py">>, <<"d/">>, <<"*.log">>, <<"/d/e/">>}
MatchCache ==
    [patterns \in KnownPatternLists |->
        {x : x \in {path \in KnownPaths : regex_matches(patterns, path)}}]

matches(patterns, path) ==
    IF patterns \in KnownPatternLists /\ path \in KnownPaths
    THEN path \in MatchCache[patterns]
    ELSE regex_matches(patterns, path)

-----------------------------------------------------------------------------
(* The tracked tree and the checkpoint file                                *)

\* tree is a function from the relative paths of the regular files below the
\* root (the checkpoint file excepted) to [bytes, readable].  A directory
\* exists when a file lies beneath it.
\* checkpoint is the file <root>/.slim/cartography.json:
\*   [kind |-> "absent"], [kind |-> "text"] (text that is not JSON),
\*   [kind |-> "bytes"] (bytes that are not UTF-8), or
\*   [kind |-> "json", state |-> the dict json.dump wrote].

TRACKED_ROOT == "/repo"
Roots == {TRACKED_ROOT, "/nodir"}

is_dir(root) == root = TRACKED_ROOT

\* Path(root).name
RootName(root) == LET parts == Parts(root) IN parts[Len(parts)]

StatePath == STATE_DIR \o "/" \o STATE_FILE

Absent == [kind |-> "absent"]

\* The disk below the tracked root: the tree and the checkpoint file.
Disk(t, cp) == [tree |-> t, checkpoint |-> cp]

\* The paths of the regular files on the disk.
DiskPaths(disk) ==
    DOMAIN disk.tree
    \cup (IF disk.checkpoint.kind = "absent" THEN {} ELSE {StatePath})

\* The file at path p (the checkpoint file holds the serialised checkpoint).
ReadFile(disk, p) ==
    IF p \in DOMAIN disk.tree THEN disk.tree[p]
    ELSE [bytes |-> ToString(disk.checkpoint), readable |-> TRUE]

\* load_gitignore
RECURSIVE GitignoreLines(_)
GitignoreLines(lines) ==
    IF Len(lines) = 0 THEN <<>>
    ELSE LET line == Strip(Head(lines))
         IN  IF Len(line) > 0 /\ ~StartsWith(line, "#")
             THEN <<line>> \o GitignoreLines(Tail(lines))
             ELSE GitignoreLines(Tail(lines))

GitignoreCache ==
    [bytes \in KnownIgnoreFiles |-> GitignoreLines(Lines(bytes))]

load_gitignore(disk) ==
    IF ".gitignore" \in DiskPaths(disk)
    THEN LET bytes == ReadFile(disk, ".gitignore").bytes
         IN  IF bytes \in KnownIgnoreFiles THEN GitignoreCache[bytes]
             ELSE GitignoreLines(Lines(bytes))
    ELSE <<>>

\* Does one of the directories on the way to p start with "."?
HiddenDir(p) ==
    LET parts == Parts(p)
    IN  \E i \in 1..(Len(parts) - 1) : StartsWith(parts[i], ".")

PrunedCache == {x : x \in {p \in KnownPaths : HiddenDir(p)}}

\* os.walk(root) with "dirnames[:] = [d for d in dirnames if not
\* d.startswith('.')]": the files none of whose directories is hidden.
\* (Faulty variant: no directory is pruned.)
Pruned_Never(p) == FALSE

Pruned(p) == IF p \in KnownPaths THEN p \in PrunedCache ELSE HiddenDir(p)

Walk(disk) == {p \in DiskPaths(disk) : ~Pruned(p)}

\* (Faulty variant: the exceptions are looked up before the ignore matcher.)
RECURSIVE SelectLoop_ExceptionsFirst(_, _, _, _, _)
SelectLoop_ExceptionsFirst(walked, include_patterns, exclude_patterns, exception_set, gitignore_patterns) ==
    IF Len(walked) = 0 THEN {}
    ELSE LET rel_path == Head(walked)
             rest == SelectLoop_ExceptionsFirst(Tail(walked), include_patterns,
                                                exclude_patterns, exception_set,
                                                gitignore_patterns)
         IN  IF rel_path \in exception_set THEN {rel_path} \cup rest
             ELSE IF matches(gitignore_patterns, rel_path) THEN rest
             ELSE IF matches(exclude_patterns, rel_path) THEN rest
             ELSE IF matches(include_patterns, rel_path)
                  THEN {rel_path} \cup rest
                  ELSE rest

\* The body of the loop over filenames in select_files, file by file (in
\* the order of walked: os.walk fixes none, and the result does not depend
\* on it).
RECURSIVE SelectLoop(_, _, _, _, _)
SelectLoop(walked, include_patterns, exclude_patterns, exception_set, gitignore_patterns) ==
    IF Len(walked) = 0 THEN {}
    ELSE LET rel_path == Head(walked)
             rest == SelectLoop(Tail(walked), include_patterns,
                                exclude_patterns, exception_set,
                                gitignore_patterns)
         IN  IF matches(gitignore_patterns, rel_path) THEN rest
             ELSE IF /\ matches(exclude_patterns, rel_path)
                     /\ rel_path \notin exception_set
                  THEN rest
                  ELSE IF \/ matches(include_patterns, rel_path)
                          \/ rel_path \in exception_set
                       THEN {rel_path} \cup rest
                       ELSE rest

Range(seq) == {seq[i] : i \in 1..Len(seq)}

\* select_files: the sorted list of the selected relative paths.
select_files(disk, include_patterns, exclude_patterns, exceptions, gitignore_patterns) ==
    SortedPaths(SelectLoop(Sorted(Walk(disk)), include_patterns,
                           exclude_patterns, Range(exceptions),
                           gitignore_patterns))

-----------------------------------------------------------------------------
(* Hash engine                                                             *)

\* hashlib.md5(data).hexdigest(), idealised as injective.
md5(data) == "md5(" \o data \o ")"

compute_file_hash(file) == IF file.readable THEN md5(file.bytes) ELSE ""

\* file_hashes as cmd_init and cmd_update fill it.
HashFiles(disk, selected_files) ==
    [p \in Range(selected_files) |-> compute_file_hash(ReadFile(disk, p))]

RECURSIVE FolderLines(_, _)
FolderLines(paths, file_hashes) ==
    IF Len(paths) = 0 THEN ""
    ELSE Head(paths) \o ":" \o file_hashes[Head(paths)] \o "\n"
         \o FolderLines(Tail(paths), file_hashes)

\* The filter compute_folder_hash applies to the paths of file_hashes.
FolderFilter(path, folder) ==
    \/ StartsWith(path, folder \o "/")
    \/ (folder = "." /\ ~Contains(path, "/"))

FolderFilterCache ==
    {x : x \in {pf \in KnownPaths \X KnownFolders :
                   FolderFilter(pf[1], pf[2])}}

InFolder(path, folder) ==
    IF path \in KnownPaths /\ folder \in KnownFolders
    THEN <<path, folder>> \in FolderFilterCache
    ELSE FolderFilter(path, folder)

compute_folder_hash(folder, file_hashes) ==
    LET folder_files ==
            Sorted({path \in DOMAIN file_hashes : InFolder(path, folder)})
    IN  IF Len(folder_files) = 0 THEN ""
        ELSE md5(FolderLines(folder_files, file_hashes))

\* The ancestor folders of one relative path: "/".join(parts[:i + 1]) for
\* i in range(len(parts) - 1).
ParentFolders(path) ==
    LET parts == Parts(path)
    IN  {Join(SubSeq(parts, 1, i)) : i \in 1..(Len(parts) - 1)}

AncestorCache == [path \in KnownPaths |-> ParentFolders(path)]

AncestorFolders(path) ==
    IF path \in KnownPaths THEN AncestorCache[path] ELSE ParentFolders(path)

\* (Faulty variant: the root is not added.)
get_folders_with_files_NoRoot(files) ==
    UNION {AncestorFolders(f) : f \in Range(files)}

get_folders_with_files(files) ==
    UNION {AncestorFolders(f) : f \in Range(files)} \cup {"."}

HashFolders(folders, file_hashes) ==
    [folder \in folders |-> compute_folder_hash(folder, file_hashes)]

-----------------------------------------------------------------------------
(* Checkpoint store                                                        *)

\* json.dump followed by json.load gives back an equal dict here: the state
\* holds only dicts with str keys, lists of str, and str values.

\* load_state: the parsed dict, None, or an exception that is not caught
\* (json.load raises UnicodeDecodeError on bytes that are not UTF-8, which
\* is neither JSONDecodeError nor IOError).
load_state(cp) ==
    IF cp.kind = "absent" THEN [result |-> "None"]
    ELSE IF cp.kind = "json" THEN [result |-> "dict", state |-> cp.state]
    ELSE IF cp.kind = "text" THEN [result |-> "None"]
    ELSE [result |-> "raise"]

\* save_state: the checkpoint file after json.dump(state).
save_state(state) == [kind |-> "json", state |-> state]

\* create_empty_codemap: the template written for one folder.
CodemapTemplate(folder_name) ==
    "# " \o folder_name \o "/\n\n## Responsibility\n"
    \o "<!-- What this folder does -->\n\n## Design\n"
    \o "<!-- Key patterns, abstractions -->\n\n## Flow\n"
    \o "<!-- Data/control flow -->\n\n## Integration\n"
    \o "<!-- Dependencies and consumers -->\n"

CodemapPath(folder) ==
    IF folder = "." THEN CODEMAP_FILE ELSE folder \o "/" \o CODEMAP_FILE

\* The tree after create_empty_codemap has run for every folder: a codemap
\* that exists is left alone.
CreateCodemaps(root, t, folders) ==
    LET missing == {f \in folders : CodemapPath(f) \notin DOMAIN t}
        folderOf(p) == CHOOSE f \in missing : CodemapPath(f) = p
    IN  [p \in DOMAIN t \cup {CodemapPath(f) : f \in missing} |->
            IF p \in DOMAIN t THEN t[p]
            ELSE [bytes |-> CodemapTemplate(IF folderOf(p) = "."
                                            THEN RootName(root)
                                            ELSE folderOf(p)),
                  readable |-> TRUE]]

-----------------------------------------------------------------------------
(* Change detector                                                         *)

\* (Faulty variant: the root is not added.)
AffectedFolders_NoRoot(changed) ==
    UNION {AncestorFolders(path) : path \in changed}

\* The affected folders cmd_changes collects from the changed paths.
AffectedFolders(changed) ==
    UNION {AncestorFolders(path) \cup {"."} : path \in changed}

\* (Faulty variant: every path in both mappings counts as modified.)
Diff_NoDigestCompare(current_hashes, saved_hashes) ==
    LET added == DOMAIN current_hashes \ DOMAIN saved_hashes
        removed == DOMAIN saved_hashes \ DOMAIN current_hashes
        modified == DOMAIN current_hashes \cap DOMAIN saved_hashes
    IN  [added |-> added, removed |-> removed, modified |-> modified,
         affected |-> IF added = {} /\ removed = {} /\ modified = {}
                      THEN {}
                      ELSE AffectedFolders(added \cup removed \cup modified)]

\* The sets cmd_changes derives from the current and the saved file hashes.
\* When nothing changed it prints "No changes." and returns before any
\* affected folder is computed.
Diff(current_hashes, saved_hashes) ==
    LET added == DOMAIN current_hashes \ DOMAIN saved_hashes
        removed == DOMAIN saved_hashes \ DOMAIN current_hashes
        modified == {path \in DOMAIN current_hashes \cap DOMAIN saved_hashes :
                        current_hashes[path] # saved_hashes[path]}
    IN  [added |-> added, removed |-> removed, modified |-> modified,
         affected |-> IF added = {} /\ removed = {} /\ modified = {}
                      THEN {}
                      ELSE AffectedFolders(added \cup removed \cup modified)]

\* The file hashes cmd_changes and cmd_update recompute with the
\* configuration stored in the loaded state.
SelectWith(disk, metadata) ==
    select_files(disk, metadata.include_patterns, metadata.exclude_patterns,
                 metadata.exceptions, load_gitignore(disk))

CurrentHashes(disk, metadata) == HashFiles(disk, SelectWith(disk, metadata))

\* (Faulty variant: the entries of the loaded mappings that were not
\* recomputed are kept.)
UpdateState_Patch(state, last_run, file_hashes, folder_hashes) ==
    LET Merge(old, new) ==
            [k \in DOMAIN old \cup DOMAIN new |->
                IF k \in DOMAIN new THEN new[k] ELSE old[k]]
    IN  [state EXCEPT !.metadata.last_run = last_run,
                      !.file_hashes = Merge(state.file_hashes, file_hashes),
                      !.folder_hashes =
                          Merge(state.folder_hashes, folder_hashes)]

\* The three assignments cmd_update makes to the loaded state.
UpdateState(state, last_run, file_hashes, folder_hashes) ==
    [state EXCEPT !.metadata.last_run = last_run,
                  !.file_hashes = file_hashes,
                  !.folder_hashes = folder_hashes]

-----------------------------------------------------------------------------
(* Bounds and inputs                                                       *)

\* init and update stamp last_run with the clock; at most MaxNow stamps.
MaxNow == 2
\* At most MaxEdits changes made to the tree or the checkpoint file by
\* anything other than the three commands.
MaxEdits == 1

File(bytes) == [bytes |-> bytes, readable |-> TRUE]
Unreadable(bytes) == [bytes |-> bytes, readable |-> FALSE]

\* What the edits made from outside touch.
WritablePaths == {"a.py", ".gitignore"}
DeletablePaths == {"a.py", "d/e/c.py", "codemap.md", ".gitignore"}
RenameSources == {"a.py", "d/e/c.py"}
RenameTargets == {"d/a.py"}
SourceFiles == {File("v2"), Unreadable("v1")}
GitignoreFiles == {File("# logs\n\n*.log \n"), File("/d/e/\n")}

Tree1 == [p \in {"a.py", "d/b.log", "d/e/c.py"} |-> File("v1")]
Tree2 == [p \in {"a.py", "d/b.log", ".gitignore", ".git/x"} |->
             IF p = ".gitignore" THEN File("# logs\n\n*.log \n")
             ELSE File("v1")]
Tree3 == [p \in {"d/e/c.py", "codemap.md"} |->
             IF p = "codemap.md" THEN File("v2") ELSE Unreadable("v2")]
InitTrees == {Tree1, Tree2, Tree3}

\* The --include / --exclude / --exception options of init (argparse
\* leaves an option that was not given empty).
Args(include, exclude, exception) ==
    [include |-> include, exclude |-> exclude, exception |-> exception]

InitArgs ==
    { Args(<<>>, <<>>, <<>>),
      Args(<<"*.py">>, <<"d/">>, <<"d/b.log">>),
      Args(<<"**/*">>, <<"*.log">>, <<"d/b.log">>) }

-----------------------------------------------------------------------------
(* State machine                                                           *)

Result(cmd, code, err, diff) ==
    [cmd |-> cmd, code |-> code, err |-> err, added |-> diff.added,
     removed |-> diff.removed, modified |-> diff.modified,
     affected |-> diff.affected]

NoDiff == [added |-> {}, removed |-> {}, modified |-> {}, affected |-> {}]

Event(cmd, code, arg) == [cmd |-> cmd, code |-> code, arg |-> arg]

Commands == {"init", "changes", "update"}

\* log keeps the last command with what came right before it, or the last
\* edit made from outside when no command has run since.
Push(l, e) ==
    IF e.cmd \in Commands /\ Len(l) > 0 THEN <<l[Len(l)], e>> ELSE <<e>>

Init ==
    /\ tree \in InitTrees
    /\ checkpoint = Absent
    /\ now = 0
    /\ out = Result("", 0, "", NoDiff)
    /\ log = <<>>
    /\ budget = MaxEdits

\* cmd_init
CmdInit ==
    \E root \in Roots, args \in InitArgs :
       IF ~is_dir(root)
       THEN /\ out' = Result("init", 1, "not a directory", NoDiff)
            /\ log' = Push(log, Event("init", 1, <<>>))
            /\ UNCHANGED <<tree, checkpoint, now, budget>>
       ELSE LET disk == Disk(tree, checkpoint)
                gitignore == load_gitignore(disk)
                include_patterns ==
                    IF Len(args.include) = 0 THEN <<"**/*">> ELSE args.include
                exclude_patterns == args.exclude
                exceptions == args.exception
                selected_files ==
                    select_files(disk, include_patterns, exclude_patterns,
                                 exceptions, gitignore)
                file_hashes == HashFiles(disk, selected_files)
                folders == get_folders_with_files(selected_files)
                folder_hashes == HashFolders(folders, file_hashes)
                state ==
                    [metadata |->
                        [version |-> VERSION,
                         last_run |-> now,
                         root |-> root,
                         include_patterns |-> include_patterns,
                         exclude_patterns |-> exclude_patterns,
                         exceptions |-> exceptions],
                     file_hashes |-> file_hashes,
                     folder_hashes |-> folder_hashes]
            IN  /\ now < MaxNow
                /\ now' = now + 1
                /\ checkpoint' = save_state(state)
                /\ tree' = CreateCodemaps(root, tree, folders)
                /\ out' = Result("init", 0, "", NoDiff)
                /\ log' = Push(log, Event("init", 0, <<>>))
                /\ UNCHANGED budget

\* (Faulty variant: changes saves what it has just computed.)
CmdChanges_Saves ==
    \E root \in {TRACKED_ROOT} :
       LET loaded == load_state(checkpoint)
       IN  /\ IF loaded.result = "raise"
              THEN /\ out' = Result("changes", 1, "traceback", NoDiff)
                   /\ checkpoint' = checkpoint
              ELSE IF loaded.result = "None"
              THEN /\ out' = Result("changes", 1, "no state", NoDiff)
                   /\ checkpoint' = checkpoint
              ELSE LET disk == Disk(tree, checkpoint)
                       current_hashes ==
                           CurrentHashes(disk, loaded.state.metadata)
                       saved_hashes == loaded.state.file_hashes
                   IN  /\ out' = Result("changes", 0, "",
                                        Diff(current_hashes, saved_hashes))
                       /\ checkpoint' =
                             save_state([loaded.state EXCEPT
                                            !.file_hashes = current_hashes])
           /\ log' = Push(log, Event("changes", out'.code, <<>>))
           /\ UNCHANGED <<tree, now, budget>>

\* cmd_changes
CmdChanges ==
    \E root \in {TRACKED_ROOT} :
       LET loaded == load_state(checkpoint)
       IN  /\ IF loaded.result = "raise"
              THEN out' = Result("changes", 1, "traceback", NoDiff)
              ELSE IF loaded.result = "None"
              THEN out' = Result("changes", 1, "no state", NoDiff)
              ELSE LET disk == Disk(tree, checkpoint)
                       current_hashes ==
                           CurrentHashes(disk, loaded.state.metadata)
                       saved_hashes == loaded.state.file_hashes
                   IN  out' = Result("changes", 0, "",
                                     Diff(current_hashes, saved_hashes))
           /\ log' = Push(log, Event("changes", out'.code, <<>>))
           /\ UNCHANGED <<tree, checkpoint, now, budget>>

\* cmd_update
CmdUpdate ==
    \E root \in {TRACKED_ROOT} :
       LET loaded == load_state(checkpoint)
       IN  IF loaded.result # "dict"
           THEN /\ out' = Result("update", 1,
                                 IF loaded.result = "raise" THEN "traceback"
                                 ELSE "no state", NoDiff)
                /\ log' = Push(log, Event("update", 1, <<>>))
                /\ UNCHANGED <<tree, checkpoint, now, budget>>
           ELSE LET state == loaded.state
                    disk == Disk(tree, checkpoint)
                    selected_files == SelectWith(disk, state.metadata)
                    file_hashes == HashFiles(disk, selected_files)
                    folders == get_folders_with_files(selected_files)
                    folder_hashes == HashFolders(folders, file_hashes)
                    state2 ==
                        UpdateState(state, now, file_hashes, folder_hashes)
                IN  /\ now < MaxNow
                    /\ now' = now + 1
                    /\ checkpoint' = save_state(state2)
                    /\ out' = Result("update", 0, "", NoDiff)
                    /\ log' = Push(log, Event("update", 0, <<>>))
                    /\ UNCHANGED <<tree, budget>>

\* Somebody writes, creates or makes unreadable a file of the tree.
WriteFile ==
    \E p \in WritablePaths :
       \E f \in IF p = ".gitignore" THEN GitignoreFiles ELSE SourceFiles :
          /\ budget > 0
          /\ (p \in DOMAIN tree => tree[p] # f)
          /\ tree' = [q \in DOMAIN tree \cup {p} |->
                         IF q = p THEN f ELSE tree[q]]
          /\ budget' = budget - 1
          /\ log' = Push(log, Event("edit", 0, <<>>))
          /\ UNCHANGED <<checkpoint, now, out>>

\* Somebody deletes a file of the tree.
DeleteFile ==
    \E p \in DOMAIN tree \cap DeletablePaths :
       /\ budget > 0
       /\ tree' = [q \in DOMAIN tree \ {p} |-> tree[q]]
       /\ budget' = budget - 1
       /\ log' = Push(log, Event("edit", 0, <<>>))
       /\ UNCHANGED <<checkpoint, now, out>>

\* Somebody renames a file of the tree to a path that is free.
RenameFile ==
    \E p \in DOMAIN tree \cap RenameSources :
       \E q \in RenameTargets \ DOMAIN tree :
          /\ budget > 0
          /\ tree' = [r \in (DOMAIN tree \ {p}) \cup {q} |->
                         IF r = q THEN tree[p] ELSE tree[r]]
          /\ budget' = budget - 1
          /\ log' = Push(log, Event("rename", 0, <<p, q>>))
          /\ UNCHANGED <<checkpoint, now, out>>

\* The checkpoint file is damaged (a torn write, a foreign edit) or removed.
DamageCheckpoint ==
    \E kind \in {"absent", "text", "bytes"} :
       /\ budget > 0
       /\ checkpoint.kind # kind
       /\ checkpoint' = [kind |-> kind]
       /\ budget' = budget - 1
       /\ log' = Push(log, Event("edit", 0, <<>>))
       /\ UNCHANGED <<tree, now, out>>

Next ==
    \/ CmdInit
    \/ CmdChanges
    \/ CmdUpdate
    \/ WriteFile
    \/ DeleteFile
    \/ RenameFile
    \/ DamageCheckpoint

Spec == Init /\ [][Next]_vars

TypeOK ==
    /\ now \in 0..MaxNow
    /\ budget \in 0..MaxEdits
    /\ checkpoint.kind \in {"absent", "text", "bytes", "json"}
    /\ out.code \in {0, 1}
    /\ Len(log) <= 2

-----------------------------------------------------------------------------
(* Properties                                                              *)

Last == log[Len(log)]

\* The last thing that happened is command cmd, and it returned code.
Ran(cmd, code) == Len(log) > 0 /\ Last.cmd = cmd /\ Last.code = code

\* Command second ran right after first returned 0, nothing in between.
RanAfter(first, second) ==
    /\ Len(log) = 2
    /\ log[1] = Event(first, 0, <<>>)
    /\ log[2].cmd = second

NothingReported == out.added = {} /\ out.removed = {} /\ out.modified = {}

\* C1: init followed at once by changes reports no added, removed or
\* modified path.
C1_RoundTrip == RanAfter("init", "changes") => out.code = 0 /\ NothingReported

\* C2: a walked file is selected exactly when the ignore matcher does not
\* match it, and the exclude matcher does not match it or it is an exception,
\* and the include matcher matches it or it is an exception.
C2_SelectionPrecedence ==
    \A args \in InitArgs :
       LET disk == Disk(tree, checkpoint)
           include == IF Len(args.include) = 0 THEN <<"**/*">> ELSE args.include
           ignore == load_gitignore(disk)
       IN  Range(select_files(disk, include, args.exclude, args.exception,
                              ignore))
           = {p \in Walk(disk) :
                 /\ ~matches(ignore, p)
                 /\ (~matches(args.exclude, p) \/ p \in Range(args.exception))
                 /\ (matches(include, p) \/ p \in Range(args.exception))}

\* An init has just recorded a tree in which d/b.log is an exception that
\* the ignore file matches (so it is left out), next to a.py, an exception
\* free file that is selected.
C2_Witness ==
    /\ Ran("init", 0)
    /\ "d/b.log" \in DOMAIN tree
    /\ "d/b.log" \in Range(checkpoint.state.metadata.exceptions)
    /\ matches(load_gitignore(Disk(tree, checkpoint)), "d/b.log")
    /\ "d/b.log" \notin DOMAIN checkpoint.state.file_hashes
    /\ "a.py" \in DOMAIN checkpoint.state.file_hashes

\* path lies directly or transitively under folder.
LiesBeneath(path, folder) == folder = "." \/ StartsWith(path, folder \o "/")

BeneathCache ==
    {x : x \in {pf \in KnownPaths \X KnownFolders :
                   LiesBeneath(pf[1], pf[2])}}

Beneath(path, folder) ==
    IF path \in KnownPaths /\ folder \in KnownFolders
    THEN <<path, folder>> \in BeneathCache
    ELSE LiesBeneath(path, folder)

\* C3: every folder digest of the checkpoint is computed from exactly the
\* (path, digest) pairs of file_hashes that lie beneath the folder, the
\* root "." included.
C3_FolderDigestCoversSubtree ==
    checkpoint.kind = "json" =>
       LET file_hashes == checkpoint.state.file_hashes
           folder_hashes == checkpoint.state.folder_hashes
       IN  \A folder \in DOMAIN folder_hashes :
              LET beneath == {p \in DOMAIN file_hashes : Beneath(p, folder)}
              IN  folder_hashes[folder] =
                     IF beneath = {} THEN ""
                     ELSE md5(FolderLines(Sorted(beneath), file_hashes))

\* C4: changes puts every path of the current or the saved mapping in
\* exactly one of added, removed, modified and unchanged, by the stated
\* rules; a file renamed to a new selected path is removed under the old
\* name, added under the new one, and modified under neither.
C4_ChangePartition ==
    Ran("changes", 0) =>
       LET saved == checkpoint.state.file_hashes
           current == CurrentHashes(Disk(tree, checkpoint),
                                    checkpoint.state.metadata)
           keys == DOMAIN current \cup DOMAIN saved
           unchanged == keys \ (out.added \cup out.removed \cup out.modified)
       IN  /\ out.added \cup out.removed \cup out.modified \subseteq keys
           /\ out.added \cap out.removed = {}
           /\ out.added \cap out.modified = {}
           /\ out.removed \cap out.modified = {}
           /\ \A p \in keys :
                 /\ p \in out.added <=>
                       (p \in DOMAIN current /\ p \notin DOMAIN saved)
                 /\ p \in out.removed <=>
                       (p \in DOMAIN saved /\ p \notin DOMAIN current)
                 /\ p \in out.modified <=>
                       /\ p \in DOMAIN current \cap DOMAIN saved
                       /\ current[p] # saved[p]
                 /\ p \in unchanged <=>
                       /\ p \in DOMAIN current \cap DOMAIN saved
                       /\ current[p] = saved[p]
           /\ (Len(log) = 2 /\ log[1].cmd = "rename") =>
                 LET from == log[1].arg[1]
                     to == log[1].arg[2]
                 IN  (/\ from \in DOMAIN saved
                      /\ to \in DOMAIN current
                      /\ to \notin DOMAIN saved)
                     => /\ from \in out.removed
                        /\ to \in out.added
                        /\ {from, to} \cap out.modified = {}

\* changes has run right after a.py, tracked and in step with the
\* checkpoint, was renamed to d/a.py: one path removed, one added.
C4_Witness ==
    /\ Ran("changes", 0)
    /\ Len(log) = 2
    /\ log[1] = Event("rename", 0, <<"a.py", "d/a.py">>)
    /\ out.removed = {"a.py"}
    /\ out.added = {"d/a.py"}
    /\ out.modified = {}

\* The folders that are a proper prefix of path, up to a "/".
PrefixesOf(path) ==
    {SubSeq(path, 1, i) : i \in {j \in 1..(Len(path) - 1) :
                                    CharAt(path, j + 1) = "/"}}

PrefixCache == [path \in KnownPaths |-> PrefixesOf(path)]

FolderPrefixes(path) ==
    IF path \in KnownPaths THEN PrefixCache[path] ELSE PrefixesOf(path)

\* C5: when something changed, the affected folders are exactly the proper
\* ancestor folders of the changed paths together with "."; when nothing
\* changed, no affected folder is produced.
C5_AffectedFolders ==
    Ran("changes", 0) =>
       LET changed == out.added \cup out.removed \cup out.modified
       IN  out.affected =
              IF changed = {} THEN {}
              ELSE UNION {FolderPrefixes(p) : p \in changed} \cup {"."}

\* changes has reported a change two folders deep.
C5_Witness ==
    /\ Ran("changes", 0)
    /\ "d/e/c.py" \in out.added \cup out.removed \cup out.modified
    /\ {"d", "d/e", "."} \subseteq out.affected

\* The directories the walk enters: the root and every directory that is not
\* hidden and holds a file somewhere beneath it.
WalkedDirs == UNION {FolderPrefixes(p) : p \in Walk(Disk(tree, checkpoint))}
              \cup {"."}

NothingSelectedBeneath(dir) ==
    \A p \in DOMAIN checkpoint.state.file_hashes : ~Beneath(p, dir)

\* C6 as stated: in the checkpoint init or update wrote, every directory of
\* the tree with no selected file beneath it has a key in folder_hashes,
\* whose value is the empty string.
C6_EveryEmptyDirHasKey ==
    (Ran("init", 0) \/ Ran("update", 0)) =>
       \A dir \in WalkedDirs :
          NothingSelectedBeneath(dir) =>
             /\ dir \in DOMAIN checkpoint.state.folder_hashes
             /\ checkpoint.state.folder_hashes[dir] = ""

\* C6 as amended: the root always has a key, with the empty string as its
\* value when no file is selected; a directory other than the root with no
\* selected file beneath it has no key.
C6_EmptyState ==
    (Ran("init", 0) \/ Ran("update", 0)) =>
       /\ "." \in DOMAIN checkpoint.state.folder_hashes
       /\ NothingSelectedBeneath(".") =>
             checkpoint.state.folder_hashes["."] = ""
       /\ \A dir \in WalkedDirs \ {"."} :
             NothingSelectedBeneath(dir) =>
                dir \notin DOMAIN checkpoint.state.folder_hashes

\* init has recorded a tree of which it selected nothing, although the
\* directory d/e holds a file.
C6_Witness ==
    /\ Ran("init", 0)
    /\ DOMAIN checkpoint.state.file_hashes = {}
    /\ "d/e" \in WalkedDirs
    /\ DOMAIN checkpoint.state.folder_hashes = {"."}

\* C7: with the checkpoint file absent or not JSON, changes and update
\* return 1 and behave the same in both cases.  (Neither writes anything
\* then: see the UNCHANGED of their failing branches.)
C7_MissingOrCorrupt ==
    ((Len(log) > 0 /\ Last.cmd \in {"changes", "update"})
        /\ checkpoint.kind # "json")
    => out.code = 1 /\ out.err = "no state"

\* C8: a successful update makes file_hashes and folder_hashes the mappings
\* computed afresh from the tree, keeps version, root, include_patterns,
\* exclude_patterns and exceptions as loaded, refreshes last_run, and
\* creates no file in the tree.
C8_UpdateReplaces ==
    [][(out'.cmd = "update" /\ out'.code = 0 /\ CmdUpdate) =>
          LET old == checkpoint.state.metadata
              new == checkpoint'.state.metadata
              fresh == CurrentHashes(Disk(tree', checkpoint'), new)
              folders == UNION {FolderPrefixes(p) : p \in DOMAIN fresh}
                         \cup {"."}
          IN  /\ checkpoint'.state.file_hashes = fresh
              /\ checkpoint'.state.folder_hashes =
                    [folder \in folders |-> compute_folder_hash(folder, fresh)]
              /\ new.version = old.version
              /\ new.root = old.root
              /\ new.include_patterns = old.include_patterns
              /\ new.exclude_patterns = old.exclude_patterns
              /\ new.exceptions = old.exceptions
              /\ new.last_run = now /\ new.last_run # old.last_run
              /\ tree' = tree]_vars

\* update has run right after a.py, which the checkpoint tracked, went
\* away: the new checkpoint has no entry for it.
C8_Witness ==
    /\ Ran("update", 0)
    /\ Len(log) = 2 /\ log[1].cmd \in {"edit", "rename"}
    /\ "d/b.log" \in DOMAIN tree
    /\ "a.py" \notin DOMAIN tree
    /\ "a.py" \notin DOMAIN checkpoint.state.file_hashes
    /\ DOMAIN checkpoint.state.file_hashes # {}

\* C9: changes leaves the checkpoint file and the tree as they are, and run
\* again at once it reports the same as before.
C9_ChangesReadOnly ==
    [][(out'.cmd = "changes" /\ CmdChanges) =>
          /\ checkpoint' = checkpoint
          /\ tree' = tree
          /\ (Len(log) > 0 /\ Last.cmd = "changes") => out' = out]_vars

\* changes has run twice in a row and reported changes both times.
C9_Witness ==
    /\ RanAfter("changes", "changes")
    /\ out.code = 0
    /\ out.added \cup out.removed \cup out.modified # {}

\* C10: update followed at once by changes reports no added, removed or
\* modified path.
C10_UpdateThenChanges ==
    RanAfter("update", "changes") => out.code = 0 /\ NothingReported

\* After an edit made from outside, update and then changes have run on a
\* checkpoint that tracks files.
C10_Witness ==
    /\ RanAfter("update", "changes")
    /\ out.code = 0
    /\ NothingReported
    /\ budget < MaxEdits
    /\ DOMAIN checkpoint.state.file_hashes # {}

=============================================================================
